---- MODULE Spec2Model ----
(***************************************************************************)
(* Library Catalog: the data-access layer of db.py (class Database over    *)
(* SQLite) and the HTTP handler api_patch_loan of webapp.py.                *)
(*                                                                         *)
(* The committed database file is `disk`.  One long-lived Database handle  *)
(* on which create_tables() has run ("db", as in seed.py and the tests)    *)
(* and fresh per-call handles ("req", as opened by every HTTP handler and  *)
(* CLI command, which never call create_tables()) operate on it.           *)
(* Every Database method is an operator from the tables it sees to the     *)
(* tables it leaves, its return value and the exception it raises; the     *)
(* actions apply these operators through a handle.  Requests that run      *)
(* loan_book at the same time, each on a connection of its own, take the   *)
(* method statement by statement (`inflight`).                             *)
(***************************************************************************)
EXTENDS Integers, Sequences, FiniteSets, TLC

\* ---------------------------------------------------------------- bounds
MaxBooks == 1      \* book rows ever inserted
MaxLoans == 2      \* loan rows ever inserted
MaxQty   == 2      \* largest qty a book is created with or driven to

\* ---------------------------------------------------------------- inputs
Names     == {"A", "B"}
Titles    == {"T"}
Borrowers == {"u"}
None      == "None"
Absent    == "absent"
Handles   == {"db", "req"}
Faults    == {"none", "w1", "w2"}
Requests  == {1, 2}
\* datetime.date objects <<year, month, day>>
LoanDates   == {<<2024, 12, 31>>, <<2025, 6, 1>>}
ReturnDates == {<<2025, 6, 1>>}
QueryDates  == {<<2024, 11, 5>>, <<2024, 12, 31>>, <<2025, 6, 1>>, <<2025, 12, 31>>}
BookIds   == 1..MaxBooks
LoanIds   == 1..MaxLoans

VARIABLES
    disk,          \* the committed tables: [authors, books, loans, seq]
    pending,       \* <<>> or <<tables>>: the open transaction of handle "db"
    response,      \* the response of the step just taken, if a PATCH /api/loans/{id},
                   \* with what the request held: the type of its return_date
                   \* and whether its loan id had a row
    hist,          \* per book whose qty was never overwritten: qty at creation,
                   \* and whether only loan_book has changed qty since
    stray,         \* writes of calls that raised, left in the open transaction
    inflight       \* per concurrent request: where it is in loan_book, its
                   \* arguments, and <<tables>> once it holds the write lock

vars == <<disk, pending, response, hist, stray, inflight>>

\* ---------------------------------------------------------------- strings
\* date.isoformat(): 'YYYY-MM-DD' as a sequence of character codes.
Chr(n) == 48 + n
Hyphen == 45
Isoformat(d) ==
    << Chr(d[1] \div 1000), Chr((d[1] \div 100) % 10), Chr((d[1] \div 10) % 10),
       Chr(d[1] % 10), Hyphen, Chr(d[2] \div 10), Chr(d[2] % 10), Hyphen,
       Chr(d[3] \div 10), Chr(d[3] % 10) >>

\* SQLite's BINARY collation on TEXT: memcmp, the shorter string first on a tie.
RECURSIVE StrLEFrom(_, _, _)
StrLEFrom(a, b, i) ==
    IF i > Len(a) THEN TRUE
    ELSE IF i > Len(b) THEN FALSE
    ELSE IF a[i] < b[i] THEN TRUE
    ELSE IF a[i] > b[i] THEN FALSE
    ELSE StrLEFrom(a, b, i + 1)

StrLE(a, b) == StrLEFrom(a, b, 1)

\* ---------------------------------------------------------------- tables
EmptyRows == [x \in {} |-> None]

EmptyTables ==
    [authors |-> <<>>,
     books   |-> EmptyRows,
     loans   |-> EmptyRows,
     seq     |-> [books |-> 0, loans |-> 0]]

\* sqlite3.connect() leaves PRAGMA foreign_keys at SQLite's default, OFF.
DefaultForeignKeys == FALSE

\* create_tables() runs PRAGMA foreign_keys = ON on the connection it is
\* called on; the pragma is per connection and is not stored in the file.
ForeignKeys(h) == IF h = "db" THEN TRUE ELSE DefaultForeignKeys

\* What a handle reads: its own open transaction, else the committed file.
View(h) == IF h = "db" /\ pending # <<>> THEN pending[1] ELSE disk

Ok(t, ret)   == [t |-> t, err |-> "", ret |-> ret, commit |-> TRUE]
Raise(t, e)  == [t |-> t, err |-> e, ret |-> None, commit |-> FALSE]

AuthorNames(t) == {t.authors[i] : i \in DOMAIN t.authors}
AuthorId(t, name) == CHOOSE i \in DOMAIN t.authors : t.authors[i] = name

\* ---------------------------------------------------------------- Database
\* add_author with a plain INSERT on a table without the UNIQUE constraint
add_author_plain_insert(t, name) ==
    LET t1 == [t EXCEPT !.authors = Append(t.authors, name)]
    IN  Ok(t1, AuthorId(t1, name))

\* INSERT OR IGNORE INTO authors; commit; SELECT id WHERE name = ?
add_author(t, name) ==
    LET t1 == IF name \in AuthorNames(t) THEN t
              ELSE [t EXCEPT !.authors = Append(t.authors, name)]
    IN  Ok(t1, AuthorId(t1, name))

add_book(t, title, author_name, qty) ==
    LET a  == add_author(t, author_name)
        id == a.t.seq.books + 1
        t1 == [a.t EXCEPT
                 !.books = (id :> [title |-> title, author_id |-> a.ret, qty |-> qty]) @@ @,
                 !.seq.books = id]
    IN  Ok(t1, id)

update_book_qty(t, book_id, delta) ==
    IF book_id \in DOMAIN t.books
    THEN Ok([t EXCEPT !.books[book_id].qty = @ + delta], None)
    ELSE Ok(t, None)

\* title and author_name are a str or None; qty is <<>> (None) or <<n>>.
update_book(t, book_id, title, author_name, qty) ==
    LET a  == IF author_name # None THEN add_author(t, author_name) ELSE Ok(t, None)
        t0 == a.t
    IN  IF title = None /\ author_name = None /\ qty = <<>> THEN Ok(t0, None)
        ELSE IF book_id \notin DOMAIN t0.books THEN Ok(t0, None)
        ELSE LET b0 == t0.books[book_id]
                 b1 == [title     |-> IF title # None THEN title ELSE b0.title,
                        author_id |-> IF author_name # None THEN a.ret ELSE b0.author_id,
                        qty       |-> IF qty # <<>> THEN qty[1] ELSE b0.qty]
             IN  Ok([t0 EXCEPT !.books[book_id] = b1], None)

Restrict(f, S) == [x \in S |-> f[x]]

\* DELETE FROM books WHERE id = ?; ON DELETE CASCADE acts only under
\* PRAGMA foreign_keys = ON of the connection that runs the statement.
delete_book(t, fk, book_id) ==
    LET keepB == DOMAIN t.books \ {book_id}
        keepL == IF fk /\ book_id \in DOMAIN t.books
                 THEN {l \in DOMAIN t.loans : t.loans[l].book_id # book_id}
                 ELSE DOMAIN t.loans
    IN  Ok([t EXCEPT !.books = Restrict(@, keepB), !.loans = Restrict(@, keepL)], None)

\* A date argument as Python sees it: a datetime.date, a str, or None.
DateObj(d) == [type |-> "date", v |-> d]
StrObj(s)  == [type |-> "str", v |-> s]
NoneObj    == [type |-> "none", v |-> <<>>]
Falsy(x)   == x.type = "none" \/ (x.type = "str" /\ x.v = <<>>)
\* SQL NULL in a TEXT column
Null == <<>>

\* loan_book with the availability test written `row[0] < 0`
loan_book_off_by_one(t, book_id, borrower, loan_date, today, fault) ==
    LET d  == IF Falsy(loan_date) THEN today ELSE loan_date.v
        id == t.seq.loans + 1
        t1 == [t EXCEPT
                 !.loans = (id :> [book_id |-> book_id, borrower |-> borrower,
                                   loan_date |-> Isoformat(d),
                                   return_date |-> Null]) @@ @,
                 !.seq.loans = id]
        t2 == [t1 EXCEPT !.books[book_id].qty = @ - 1]
    IN  IF book_id \notin DOMAIN t.books THEN Raise(t, "book not found")
        ELSE IF t.books[book_id].qty < 0 THEN Raise(t, "no copies available")
        ELSE IF borrower = None THEN Raise(t, "IntegrityError")
        ELSE IF fault = "w1" THEN Raise(t, "OperationalError")
        ELSE IF fault = "w2" THEN Raise(t1, "OperationalError")
        ELSE Ok(t2, id)

\* loan_book: SELECT qty; INSERT INTO loans (write 1); UPDATE books (write 2);
\* commit.  `fault` names the write the storage engine fails, if any: the
\* exception leaves the method with no rollback, so the transaction the
\* first write opened stays open on the connection.
loan_book(t, book_id, borrower, loan_date, today, fault) ==
    LET d  == IF Falsy(loan_date) THEN today ELSE loan_date.v
        id == t.seq.loans + 1
        t1 == [t EXCEPT
                 !.loans = (id :> [book_id |-> book_id, borrower |-> borrower,
                                   loan_date |-> Isoformat(d),
                                   return_date |-> Null]) @@ @,
                 !.seq.loans = id]
        t2 == [t1 EXCEPT !.books[book_id].qty = @ - 1]
    IN  IF book_id \notin DOMAIN t.books THEN Raise(t, "book not found")
        ELSE IF t.books[book_id].qty <= 0 THEN Raise(t, "no copies available")
        ELSE IF borrower = None THEN Raise(t, "IntegrityError")
        ELSE IF fault = "w1" THEN Raise(t, "OperationalError")
        ELSE IF fault = "w2" THEN Raise(t1, "OperationalError")
        ELSE Ok(t2, id)

\* The statements of loan_book one by one, as a connection runs them while
\* other connections run theirs.  The SELECT runs in autocommit mode, before
\* the transaction that the INSERT opens.
\* SELECT qty FROM books WHERE id = ?, and the two tests on its row
loan_book_select(t, book_id) ==
    IF book_id \notin DOMAIN t.books THEN "book not found"
    ELSE IF t.books[book_id].qty <= 0 THEN "no copies available"
    ELSE ""

\* INSERT INTO loans (book_id, borrower, loan_date) VALUES (?,?,?)
loan_book_insert(t, book_id, borrower, loan_date) ==
    LET id == t.seq.loans + 1
    IN  [t EXCEPT
           !.loans = (id :> [book_id |-> book_id, borrower |-> borrower,
                             loan_date |-> loan_date,
                             return_date |-> Null]) @@ @,
           !.seq.loans = id]

\* UPDATE books SET qty = qty - 1 WHERE id = ?  (no row when the book is gone)
loan_book_update(t, book_id) ==
    IF book_id \in DOMAIN t.books
    THEN [t EXCEPT !.books[book_id].qty = @ - 1]
    ELSE t

\* return_loan with a guard against returning a returned loan
return_loan_guarded(t, loan_id, return_date, today, fault) ==
    LET rd == IF Falsy(return_date) THEN DateObj(today) ELSE return_date
        t1 == [t EXCEPT !.loans[loan_id].return_date = Isoformat(rd.v)]
        b  == t.loans[loan_id].book_id
        t2 == IF b \in DOMAIN t1.books
              THEN [t1 EXCEPT !.books[b].qty = @ + 1] ELSE t1
    IN  IF rd.type # "date" THEN Raise(t, "AttributeError")
        ELSE IF loan_id \notin DOMAIN t.loans THEN Raise(t, "loan not found")
        ELSE IF t.loans[loan_id].return_date # Null THEN Raise(t, "already returned")
        ELSE Ok(t2, None)

\* return_loan: isoformat(); SELECT book_id; UPDATE loans (write 1);
\* UPDATE books (write 2, no row when the book is gone); commit.
return_loan(t, loan_id, return_date, today, fault) ==
    LET rd == IF Falsy(return_date) THEN DateObj(today) ELSE return_date
        t1 == [t EXCEPT !.loans[loan_id].return_date = Isoformat(rd.v)]
        b  == t.loans[loan_id].book_id
        t2 == IF b \in DOMAIN t1.books
              THEN [t1 EXCEPT !.books[b].qty = @ + 1] ELSE t1
    IN  IF rd.type # "date" THEN Raise(t, "AttributeError")
        ELSE IF loan_id \notin DOMAIN t.loans THEN Raise(t, "loan not found")
        ELSE IF fault = "w1" THEN Raise(t, "OperationalError")
        ELSE IF fault = "w2" THEN Raise(t1, "OperationalError")
        ELSE Ok(t2, None)

delete_loan(t, loan_id) ==
    Ok([t EXCEPT !.loans = Restrict(@, DOMAIN @ \ {loan_id})], None)

\* ---------------------------------------------------------------- reports
TimesLoaned(t, b) == Cardinality({l \in DOMAIN t.loans : t.loans[l].book_id = b})

\* books JOIN authors LEFT JOIN loans GROUP BY b.id: one row per book whose
\* author row exists.
LoanCountRows(t) ==
    { [book_id |-> b, title |-> t.books[b].title,
       author |-> t.authors[t.books[b].author_id],
       times_loaned |-> TimesLoaned(t, b)] :
      b \in {x \in DOMAIN t.books : t.books[x].author_id \in DOMAIN t.authors} }

Permutations_(S) ==
    { f \in [1..Cardinality(S) -> S] : \A x \in S : \E i \in DOMAIN f : f[i] = x }

\* ORDER BY times_loaned DESC: SQL leaves the order of ties open, so every
\* ordering of the rows that is non-increasing in times_loaned is a result.
book_loan_counts(t) ==
    { r \in Permutations_(LoanCountRows(t)) :
        \A i, j \in DOMAIN r : i < j => r[i].times_loaned >= r[j].times_loaned }

\* SELECT COUNT(*) FROM loans; SELECT AVG(cnt) FROM (... GROUP BY book_id).
\* The average is the fraction <<sum of the group counts, number of groups>>;
\* AVG over no row is NULL, which `or 0.0` turns into 0.
RECURSIVE SumCnt(_, _)
SumCnt(t, groups) ==
    IF groups = {} THEN 0
    ELSE LET g == CHOOSE x \in groups : TRUE
         IN  TimesLoaned(t, g) + SumCnt(t, groups \ {g})

loan_aggregates(t) ==
    LET groups == {t.loans[l].book_id : l \in DOMAIN t.loans}
        total  == Cardinality(DOMAIN t.loans)
    IN  [total |-> total,
         avg   |-> IF groups = {} THEN <<0, 1>>
                   ELSE <<SumCnt(t, groups), Cardinality(groups)>>]

\* the range query without the JOIN on books
LoansInRange_no_join(t, from_date, to_date) ==
    { l \in DOMAIN t.loans :
        /\ StrLE(from_date, t.loans[l].loan_date)
        /\ StrLE(t.loans[l].loan_date, to_date) }

\* loans JOIN books WHERE loan_date BETWEEN ? AND ? ORDER BY loan_date
LoansInRange(t, from_date, to_date) ==
    { l \in DOMAIN t.loans :
        /\ t.loans[l].book_id \in DOMAIN t.books
        /\ StrLE(from_date, t.loans[l].loan_date)
        /\ StrLE(t.loans[l].loan_date, to_date) }

loans_in_date_range(t, from_date, to_date) ==
    { r \in Permutations_(LoansInRange(t, from_date, to_date)) :
        \A i, j \in DOMAIN r :
            i < j => StrLE(t.loans[r[i]].loan_date, t.loans[r[j]].loan_date) }

\* ---------------------------------------------------------------- webapp
\* PATCH /api/loans/<id>.  payload.return_date is Absent-typed, JSON null
\* (NoneObj) or a JSON string (StrObj); payload.borrower is Absent, None
\* (JSON null) or a str; payload.other says whether it holds any other key.
\* Only ValueError is caught; any other exception
\* leaves the handler before db.close().  `t` in the result is what the
\* handler committed.
NoKey == [type |-> "absent", v |-> <<>>]

api_patch_loan(t, loan_id, payload, today) ==
    LET has_rd == payload.return_date.type # "absent"
        has_b  == payload.borrower # Absent
        r1 == IF has_rd THEN return_loan(t, loan_id, payload.return_date, today, "none")
              ELSE Ok(t, None)
        t1 == r1.t
        t2 == IF has_b /\ loan_id \in DOMAIN t1.loans
              THEN [t1 EXCEPT !.loans[loan_id].borrower = payload.borrower]
              ELSE t1
    IN  IF ~has_rd /\ ~has_b /\ ~payload.other   \* `if not payload`, before get_db()
        THEN [t |-> t, status |-> 400, closed |-> TRUE]
        ELSE IF r1.err = "loan not found"
        THEN [t |-> t, status |-> 400, closed |-> TRUE]
        ELSE IF r1.err # ""
        THEN [t |-> t, status |-> 500, closed |-> FALSE]
        ELSE IF has_b /\ payload.borrower = None
        THEN [t |-> t1, status |-> 500, closed |-> FALSE]
        ELSE [t |-> t2, status |-> 200, closed |-> TRUE]

\* ---------------------------------------------------------------- actions
NoResponse == [status |-> 0, closed |-> TRUE, return_date |-> "absent", found |-> FALSE]
NoStray    == [loans |-> {}, returns |-> {}]

\* A request that is not inside loan_book.
Idle == [pc |-> "idle", book_id |-> 0, borrower |-> "", loan_date |-> <<>>, t |-> <<>>]

\* The file after Database(path).create_tables(): three empty tables.
Init ==
    /\ disk = EmptyTables
    /\ pending = <<>>
    /\ response = NoResponse
    /\ hist = EmptyRows
    /\ stray = NoStray
    /\ inflight = [r \in Requests |-> Idle]

\* SQLite serializes writers: one connection at a time holds the write lock,
\* from its first write to its commit.
WriteLocked == \E r \in Requests : inflight[r].t # <<>>

\* A fresh handle cannot write while "db" holds a write transaction open
\* (sqlite3.OperationalError: database is locked; nothing changes), and no
\* handle can while a concurrent request does.
CanUse(h) == (h = "req" => pending = <<>>) /\ ~WriteLocked

\* The effect of a method call `r` made through handle h on the file and on
\* the handle's open transaction.  commit() publishes everything the
\* connection wrote; an exception leaves "db" with its transaction open,
\* while a fresh handle is dropped with the request and rolls back.
Apply(h, r) ==
    /\ disk' = IF r.commit THEN r.t ELSE disk
    /\ pending' = IF r.commit \/ h = "req" \/ r.t = disk THEN <<>> ELSE <<r.t>>
    /\ response' = NoResponse
    /\ UNCHANGED inflight

\* db.close(); Database(path).create_tables(): close() rolls the open
\* transaction back, create_tables() finds the tables and keeps the rows.
Reopen ==
    /\ pending' = <<>>
    /\ stray' = IF pending # <<>> THEN NoStray ELSE stray
    /\ response' = NoResponse
    /\ UNCHANGED <<disk, hist, inflight>>

AddAuthor(h, name) ==
    /\ CanUse(h)
    /\ Apply(h, add_author(View(h), name))
    /\ UNCHANGED <<hist, stray>>

AddBook(h, title, author_name, qty) ==
    /\ CanUse(h)
    /\ View(h).seq.books < MaxBooks
    /\ LET r == add_book(View(h), title, author_name, qty)
       IN  /\ Apply(h, r)
           /\ hist' = (r.ret :> [Q |-> qty, pristine |-> TRUE]) @@ hist
    /\ UNCHANGED stray

Forget(b)    == Restrict(hist, DOMAIN hist \ {b})
Returned(b)  == IF b \in DOMAIN hist THEN [hist EXCEPT ![b].pristine = FALSE] ELSE hist

UpdateBookQty(h, book_id, delta) ==
    /\ CanUse(h)
    /\ book_id \in DOMAIN View(h).books =>
           View(h).books[book_id].qty + delta \in -1..MaxQty
    /\ Apply(h, update_book_qty(View(h), book_id, delta))
    /\ hist' = Forget(book_id)
    /\ UNCHANGED stray

UpdateBook(h, book_id, title, author_name, qty) ==
    /\ CanUse(h)
    /\ Apply(h, update_book(View(h), book_id, title, author_name, qty))
    /\ hist' = IF qty # <<>> THEN Forget(book_id) ELSE hist
    /\ UNCHANGED stray

DeleteBook(h, book_id) ==
    /\ CanUse(h)
    /\ Apply(h, delete_book(View(h), ForeignKeys(h), book_id))
    /\ hist' = Forget(book_id)
    /\ UNCHANGED stray

LoanBook(h, book_id, borrower, loan_date, today, fault) ==
    /\ CanUse(h)
    /\ View(h).seq.loans < MaxLoans
    /\ LET r == loan_book(View(h), book_id, borrower, loan_date, today, fault)
       IN  /\ Apply(h, r)
           /\ stray' = IF h = "db" /\ r.err # "" /\ r.t # View(h)
                       THEN [stray EXCEPT !.loans = @ \cup {View(h).seq.loans + 1}]
                       ELSE stray
    /\ UNCHANGED hist

ReturnLoan(h, loan_id, return_date, today, fault) ==
    /\ CanUse(h)
    /\ LET t == View(h)
           r == return_loan(t, loan_id, return_date, today, fault)
           b == IF loan_id \in DOMAIN t.loans THEN t.loans[loan_id].book_id ELSE 0
       IN  /\ b \in DOMAIN t.books => t.books[b].qty < MaxQty
           /\ Apply(h, r)
           /\ hist' = IF r.err = "" THEN Returned(b) ELSE hist
           /\ stray' = IF h = "db" /\ r.err # "" /\ r.t # t
                          /\ t.loans[loan_id].return_date = Null
                       THEN [stray EXCEPT !.returns = @ \cup {loan_id}]
                       ELSE IF r.err = ""
                       THEN [stray EXCEPT !.returns = @ \ {loan_id}]
                       ELSE stray

DeleteLoan(h, loan_id) ==
    /\ CanUse(h)
    /\ Apply(h, delete_loan(View(h), loan_id))
    /\ UNCHANGED <<hist, stray>>

\* ------------------------------------------- loan_book, concurrent requests
\* Request r enters loan_book on a connection of its own and reads qty from
\* the committed file; a ValueError ends the request at once.
LoanSelect(r, book_id, borrower, loan_date, today) ==
    /\ inflight[r].pc = "idle"
    /\ disk.seq.loans + Cardinality({q \in Requests : inflight[q].pc # "idle"}) < MaxLoans
    /\ LET d == IF Falsy(loan_date) THEN today ELSE loan_date.v
       IN  inflight' =
              IF loan_book_select(disk, book_id) # "" THEN inflight
              ELSE [inflight EXCEPT ![r] =
                      [pc |-> "selected", book_id |-> book_id, borrower |-> borrower,
                       loan_date |-> Isoformat(d), t |-> <<>>]]
    /\ response' = NoResponse
    /\ UNCHANGED <<disk, pending, hist, stray>>

\* The INSERT opens the write transaction on the file as it is now.
LoanInsert(r) ==
    /\ inflight[r].pc = "selected"
    /\ pending = <<>> /\ ~WriteLocked
    /\ inflight' = [inflight EXCEPT
                      ![r].pc = "inserted",
                      ![r].t = <<loan_book_insert(disk, inflight[r].book_id,
                                    inflight[r].borrower, inflight[r].loan_date)>>]
    /\ response' = NoResponse
    /\ UNCHANGED <<disk, pending, hist, stray>>

\* The INSERT finds the write lock held for longer than the connection's
\* busy timeout: sqlite3.OperationalError, database is locked.
LoanLocked(r) ==
    /\ inflight[r].pc = "selected"
    /\ pending # <<>> \/ WriteLocked
    /\ inflight' = [inflight EXCEPT ![r] = Idle]
    /\ response' = NoResponse
    /\ UNCHANGED <<disk, pending, hist, stray>>

LoanUpdate(r) ==
    /\ inflight[r].pc = "inserted"
    /\ inflight' = [inflight EXCEPT
                      ![r].pc = "updated",
                      ![r].t = <<loan_book_update(inflight[r].t[1], inflight[r].book_id)>>]
    /\ response' = NoResponse
    /\ UNCHANGED <<disk, pending, hist, stray>>

LoanCommit(r) ==
    /\ inflight[r].pc = "updated"
    /\ disk' = inflight[r].t[1]
    /\ inflight' = [inflight EXCEPT ![r] = Idle]
    /\ response' = NoResponse
    /\ UNCHANGED <<pending, hist, stray>>

\* PATCH /api/loans/<id> on a fresh handle
ApiPatchLoan(loan_id, payload, today) ==
    /\ CanUse("req")
    /\ LET r == api_patch_loan(disk, loan_id, payload, today)
           b == IF loan_id \in DOMAIN disk.loans THEN disk.loans[loan_id].book_id ELSE 0
       IN  /\ b \in DOMAIN disk.books => disk.books[b].qty < MaxQty
           /\ disk' = r.t
           /\ response' = [status |-> r.status, closed |-> r.closed,
                            return_date |-> payload.return_date.type,
                            found |-> loan_id \in DOMAIN disk.loans]
           /\ hist' = IF r.t.books # disk.books THEN Returned(b) ELSE hist
    /\ UNCHANGED <<pending, stray, inflight>>

\* ---------------------------------------------------------------- inputs
QtyArgs      == {<<>>} \cup {<<q>> : q \in -1..MaxQty}
\* <<argument, date.today()>>: the clock matters only when the argument is falsy
LoanDateArgs == {<<NoneObj, d>> : d \in LoanDates}
                    \cup {<<DateObj(d), d>> : d \in LoanDates}
RetDateArgs  == {<<NoneObj, d>> : d \in ReturnDates}
                    \cup {<<DateObj(d), d>> : d \in ReturnDates}
Payloads ==
    { p \in [return_date : {NoKey, NoneObj}
                               \cup {StrObj(Isoformat(d)) : d \in ReturnDates},
             borrower    : {Absent, None} \cup Borrowers,
             other       : BOOLEAN] :
        p.other => (p.return_date = NoKey /\ p.borrower = Absent) }

\* The calls, over their inputs.  H: the handles the calls are made through;
\* N: the author names in use.
DoAddAuthor(H, N) == \E h \in H, n \in N : AddAuthor(h, n)
DoAddBook(H, N) ==
    \E h \in H, ti \in Titles, n \in N, q \in 0..MaxQty : AddBook(h, ti, n, q)
DoUpdateBookQty(H) == \E h \in H, b \in BookIds, d \in {-1, 1} : UpdateBookQty(h, b, d)
DoUpdateBook(H, N, Q) ==
    \E h \in H, b \in BookIds, ti \in Titles \cup {None}, n \in N \cup {None}, q \in Q :
        UpdateBook(h, b, ti, n, q)
DoDeleteBook(H) == \E h \in H, b \in BookIds : DeleteBook(h, b)
DoLoanBook(H, fault) ==
    \E h \in H, b \in BookIds, u \in Borrowers \cup {None}, d \in LoanDateArgs :
        LoanBook(h, b, u, d[1], d[2], fault)
DoReturnLoan(H, fault) ==
    \E h \in H, l \in LoanIds, d \in RetDateArgs : ReturnLoan(h, l, d[1], d[2], fault)
DoDeleteLoan(H) == \E h \in H, l \in LoanIds : DeleteLoan(h, l)
DoApiPatchLoan ==
    \E l \in LoanIds, p \in Payloads, today \in ReturnDates : ApiPatchLoan(l, p, today)

DoLoanSelect ==
    \E r \in Requests, b \in BookIds, u \in Borrowers, d \in LoanDateArgs :
        LoanSelect(r, b, u, d[1], d[2])

\* The program with a storage engine whose writes succeed.  No call leaves a
\* transaction open, so a call through "db" and the same call through a
\* fresh handle differ only in delete_book, which is tried through both.
Next ==
    \/ Reopen
    \/ DoAddAuthor({"req"}, Names)
    \/ DoAddBook({"req"}, Names)
    \/ DoUpdateBookQty({"req"})
    \/ DoUpdateBook({"req"}, Names, QtyArgs)
    \/ DoDeleteBook(Handles)
    \/ DoLoanBook({"req"}, "none")
    \/ DoReturnLoan({"req"}, "none")
    \/ DoDeleteLoan({"req"})
    \/ DoApiPatchLoan
Spec == Init /\ [][Next]_vars

\* The same program with every book by one author: the books' quantities
\* and the loans, which no call makes depend on the author.
OneName == {"A"}
NextLoans ==
    \/ DoAddBook({"req"}, OneName)
    \/ DoUpdateBookQty({"req"})
    \/ DoUpdateBook({"req"}, {}, QtyArgs)
    \/ DoDeleteBook(Handles)
    \/ DoLoanBook({"req"}, "none")
    \/ DoReturnLoan({"req"}, "none")
    \/ DoDeleteLoan({"req"})
SpecLoans == Init /\ [][NextLoans]_vars

\* The calls that write loan rows or decide which book rows exist: what the
\* date-range report reads.
NextRange ==
    \/ DoAddBook({"req"}, OneName)
    \/ DoDeleteBook(Handles)
    \/ DoLoanBook({"req"}, "none")
    \/ DoReturnLoan({"req"}, "none")
    \/ DoDeleteLoan({"req"})
SpecRange == Init /\ [][NextRange]_vars

\* The same program without returns: the authors, the books that name them
\* and the loans that a deleted book takes with it or leaves behind.
NextAuthors ==
    \/ DoAddAuthor({"req"}, Names)
    \/ DoAddBook({"req"}, Names)
    \/ DoUpdateBook({"req"}, Names, {<<>>})
    \/ DoDeleteBook(Handles)
    \/ DoLoanBook({"req"}, "none")
    \/ DoDeleteLoan({"req"})
SpecAuthors == Init /\ [][NextAuthors]_vars

\* The program with a storage engine that may fail either write of
\* loan_book and return_loan (disk full, I/O error, interrupt).
NextFault ==
    \/ Reopen
    \/ DoAddBook(Handles, OneName)
    \/ DoDeleteBook(Handles)
    \/ \E fault \in Faults : DoLoanBook(Handles, fault)
    \/ \E fault \in Faults : DoReturnLoan(Handles, fault)
    \/ DoDeleteLoan(Handles)
SpecFault == Init /\ [][NextFault]_vars

\* Requests that run loan_book at the same time on connections of their
\* own, with the storage engine's write lock as the only control between
\* them, on books that are added and deleted between requests.
NextConc ==
    \/ DoAddBook({"req"}, OneName)
    \/ DoDeleteBook({"req"})
    \/ DoLoanSelect
    \/ \E r \in Requests : LoanInsert(r)
    \/ \E r \in Requests : LoanLocked(r)
    \/ \E r \in Requests : LoanUpdate(r)
    \/ \E r \in Requests : LoanCommit(r)
SpecConc == Init /\ [][NextConc]_vars

\* ================================================================ claims
\* datetime.date.fromisoformat and the order of dates, for stating the
\* claims about dates independently of the order of strings.
Num(c) == c - 48
DateOf(s) ==
    << Num(s[1]) * 1000 + Num(s[2]) * 100 + Num(s[3]) * 10 + Num(s[4]),
       Num(s[6]) * 10 + Num(s[7]), Num(s[9]) * 10 + Num(s[10]) >>
DateLE(a, b) ==
    \/ a[1] < b[1]
    \/ a[1] = b[1] /\ a[2] < b[2]
    \/ a[1] = b[1] /\ a[2] = b[2] /\ a[3] <= b[3]
ArgDate(d) == IF Falsy(d[1]) THEN d[2] ELSE d[1].v

\* C1: in every reachable state every book's qty is >= 0 (the claim as
\* stated; update_book and update_book_qty write qty unchecked).
C1_QtyNeverNegative ==
    \A b \in DOMAIN disk.books : disk.books[b].qty >= 0

\* n further loan_book calls on book b all succeed, each taking exactly one
\* copy and adding one loan row on b, and the call after them is refused.
RECURSIVE LoansSucceedThenFail(_, _, _, _)
LoansSucceedThenFail(t, b, n, d) ==
    LET r == loan_book(t, b, "u", d[1], d[2], "none")
    IN  IF n = 0
        THEN r.err = "no copies available" /\ r.t = t
        ELSE /\ r.err = ""
             /\ r.t.books[b].qty = t.books[b].qty - 1
             /\ DOMAIN r.t.loans = DOMAIN t.loans \cup {r.ret}
             /\ r.ret \notin DOMAIN t.loans
             /\ r.t.loans[r.ret].book_id = b
             /\ LoansSucceedThenFail(r.t, b, n - 1, d)

\* C2: for a book created with quantity Q whose qty only loan_book has
\* changed, the loans made so far each took one copy (qty is between 0 and Q
\* and its loan rows number at most Q - qty), the next qty calls of loan_book
\* all succeed taking one copy each (Q calls right after creation) and the
\* call after them fails with 'no copies available'; loan_book on an id with
\* no book row fails with 'book not found'.
C2_LoanUntilExhausted ==
    /\ \A b \in DOMAIN hist : hist[b].pristine =>
          /\ b \in DOMAIN disk.books
          /\ disk.books[b].qty \in 0..hist[b].Q
          /\ TimesLoaned(disk, b) <= hist[b].Q - disk.books[b].qty
          /\ \A d \in LoanDateArgs :
                LoansSucceedThenFail(disk, b, disk.books[b].qty, d)
    /\ \A b \in BookIds \ DOMAIN disk.books, d \in LoanDateArgs :
          LET r == loan_book(disk, b, "u", d[1], d[2], "none")
          IN  r.err = "book not found" /\ r.t = disk

\* C2 witness: a book created with MaxQty copies, loaned MaxQty times, at 0.
C2_Witness ==
    \E b \in DOMAIN hist :
        /\ hist[b].pristine /\ hist[b].Q = MaxQty
        /\ disk.books[b].qty = 0
        /\ TimesLoaned(disk, b) = MaxQty

\* C3: in every reachable state every loan row references an existing book.
C3_LoansReferenceBooks ==
    \A l \in DOMAIN disk.loans : disk.loans[l].book_id \in DOMAIN disk.books

\* C4: no write of a loan_book or return_loan call that ended in an error is
\* ever in the committed tables: no loan row such a call inserted, and no
\* return date such a call set on a loan that had none.
C4_FailedCallsLeaveNothing ==
    /\ \A l \in stray.loans : l \notin DOMAIN disk.loans
    /\ \A l \in stray.returns :
          l \in DOMAIN disk.loans => disk.loans[l].return_date = Null

RECURSIVE SumTimes(_)
SumTimes(r) == IF r = <<>> THEN 0 ELSE Head(r).times_loaned + SumTimes(Tail(r))

\* C6: book_loan_counts() has exactly one row per book, in non-increasing
\* order of times_loaned, and its times_loaned sum to loan_aggregates()'s
\* total_loans.
C6_CountsMatchTotal ==
    \A r \in book_loan_counts(disk) :
        /\ {r[i].book_id : i \in DOMAIN r} = DOMAIN disk.books
        /\ Len(r) = Cardinality(DOMAIN disk.books)
        /\ \A i, j \in DOMAIN r : i < j => r[i].times_loaned >= r[j].times_loaned
        /\ SumTimes(r) = loan_aggregates(disk).total

\* C7: no two author rows share a name; add_author returns the same id for
\* the same name however often it is called, directly or through add_book
\* and update_book, and adds no second row; no step removes or changes an
\* author row.
AuthorsUnique(t) ==
    \A i, j \in DOMAIN t.authors : t.authors[i] = t.authors[j] => i = j

C7_Resolve ==
    /\ AuthorsUnique(disk)
    /\ \A n \in Names :
          LET r1 == add_author(disk, n)
              r2 == add_author(r1.t, n)
              rb == add_book(r1.t, "T", n, 1)
          IN  /\ r1.t.authors[r1.ret] = n
              /\ r2.ret = r1.ret /\ r2.t = r1.t
              /\ n \in AuthorNames(disk) => r1.t = disk
              /\ AuthorsUnique(r1.t)
              /\ rb.t.authors = r1.t.authors
              /\ rb.t.books[rb.ret].author_id = r1.ret
              /\ \A b \in DOMAIN disk.books :
                    LET ru == update_book(r1.t, b, None, n, <<>>)
                    IN  /\ ru.t.authors = r1.t.authors
                        /\ ru.t.books[b].author_id = r1.ret

C7_AuthorsIdempotentAndKept ==
    /\ []C7_Resolve
    /\ [][ \A i \in DOMAIN disk.authors :
              i \in DOMAIN disk'.authors /\ disk'.authors[i] = disk.authors[i] ]_vars

\* C7 witness: two authors, every book ever added deleted again.
C7_Witness ==
    /\ Len(disk.authors) = 2
    /\ disk.seq.books >= 1
    /\ DOMAIN disk.books = {}

\* C8: total_loans is the number of loan rows and avg_loans_per_book is
\* total_loans over the number of books with at least one loan, 0 when there
\* is no loan.
C8_Aggregates ==
    LET a == loan_aggregates(disk)
        n == Cardinality({b \in DOMAIN disk.books : TimesLoaned(disk, b) >= 1})
    IN  /\ a.total = Cardinality(DOMAIN disk.loans)
        /\ IF a.total = 0 THEN a.avg[1] = 0
           ELSE n > 0 /\ a.avg[1] * n = a.total * a.avg[2]

\* C9: loans_in_date_range(from, to) returns exactly the loans whose book
\* exists and whose loan date lies in [from, to] as dates, in ascending order
\* of loan date; after delete_book(B), through either handle, no result
\* holds a loan made against B.
RangeIsExact(t, f, g) ==
    \A r \in loans_in_date_range(t, Isoformat(f), Isoformat(g)) :
        /\ {r[i] : i \in DOMAIN r} =
              { l \in DOMAIN t.loans :
                  /\ t.loans[l].book_id \in DOMAIN t.books
                  /\ DateLE(f, DateOf(t.loans[l].loan_date))
                  /\ DateLE(DateOf(t.loans[l].loan_date), g) }
        /\ \A i, j \in DOMAIN r : i # j => r[i] # r[j]
        /\ \A i, j \in DOMAIN r : i < j =>
              DateLE(DateOf(t.loans[r[i]].loan_date), DateOf(t.loans[r[j]].loan_date))

C9_DateRange ==
    \A f \in QueryDates, g \in QueryDates :
        /\ loans_in_date_range(disk, Isoformat(f), Isoformat(g)) # {}
        /\ RangeIsExact(disk, f, g)
        /\ \A b \in BookIds, h \in Handles :
              LET t == delete_book(disk, ForeignKeys(h), b).t
              IN  \A r \in loans_in_date_range(t, Isoformat(f), Isoformat(g)) :
                      \A i \in DOMAIN r : t.loans[r[i]].book_id # b

\* C9 witness: two loans on an existing book, the one made later dated
\* earlier, so that the result is not in order of insertion.
C9_Witness ==
    \E l1, l2 \in DOMAIN disk.loans :
        /\ l1 < l2
        /\ disk.loans[l1].book_id \in DOMAIN disk.books
        /\ disk.loans[l2].book_id \in DOMAIN disk.books
        /\ disk.loans[l1].loan_date # disk.loans[l2].loan_date
        /\ DateLE(DateOf(disk.loans[l2].loan_date), DateOf(disk.loans[l1].loan_date))
        /\ \E f \in QueryDates, g \in QueryDates :
              loans_in_date_range(disk, Isoformat(f), Isoformat(g)) = {<<l2>>}

\* C10: a PATCH /api/loans/{id} whose body holds return_date ends in 200 when
\* the loan exists and in 400 when it does not, with the connection closed.
C10_PatchLoanHandled ==
    response.return_date # "absent" =>
        /\ response.status = IF response.found THEN 200 ELSE 400
        /\ response.closed

\* C11: for every book created with quantity Q whose qty no update has
\* overwritten, qty equals Q minus the number of its loans that are out (its
\* loan rows with no return date), under any sequence of loan_book,
\* return_loan and delete_loan.
LoansOut(t, b) ==
    Cardinality({l \in DOMAIN t.loans :
                    t.loans[l].book_id = b /\ t.loans[l].return_date = Null})

C11_QtyIsTotalMinusOut ==
    \A b \in DOMAIN hist :
        b \in DOMAIN disk.books =>
            disk.books[b].qty = hist[b].Q - LoansOut(disk, b)

\* C12: when requests run loan_book on the same book at the same time on
\* separate connections, with only the storage engine's writer serialization
\* between them, the book's qty never becomes negative and the loans that
\* succeed never number more than the copies there were: for a book created
\* with Q copies whose qty only loan_book has changed, qty >= 0 and at most Q
\* loan rows.
C12_ConcurrentLoansBounded ==
    \A b \in DOMAIN hist :
        (hist[b].pristine /\ b \in DOMAIN disk.books) =>
            /\ disk.books[b].qty >= 0
            /\ TimesLoaned(disk, b) <= hist[b].Q

====
